---- MODULE Spec2Model ----
(***************************************************************************)
(* Model of bug-finder (src/main.py): counting occurrences of a multi-line *)
(* pattern ("bug") in a multi-line text ("landscape").                     *)
(*                                                                         *)
(* A text is a sequence of one-character strings.  Columns are 0-based as  *)
(* in the source; TLA+ sequences are 1-based, so column c of text t is     *)
(* t[c + 1].                                                               *)
(***************************************************************************)
EXTENDS Integers, Sequences, FiniteSets, TLC

\* ------------------------------------------------------------------ bounds
\* Physical lines of the bug file.
MaxBugLines == 2
\* Physical lines read from landscape files by one engine, over all passes.
MaxLines == 3
\* Passes one engine runs (the second one after a landscape was attached).
MaxPasses == 2
\* Characters of a row and of a line when the matcher alone is examined.
MaxRowLen == 3
MaxTextLen == 3

\* ---------------------------------------------------------------- alphabet
SP == " "
TAB == "\t"
DOT == "."
BSL == "\\"

\* The part of ALPHANUM (main.py:10) that the modelled texts use.
ALPHANUM == {"a", "b", "d", "t"}

\* Characters str.rstrip() strips and the regular expression \s matches.
Whitespace == {SP, TAB}

\* The quantifier "{N}" that '.{{{length}}}'.format writes, as one token.
QuantTok == <<"{1}", "{2}", "{3}", "{4}">>
IsQuant(tok) == \E n \in 1..Len(QuantTok) : QuantTok[n] = tok
QuantOf(tok) == CHOOSE n \in 1..Len(QuantTok) : QuantTok[n] = tok

\* ------------------------------------------------------------------ escape
\* escape(string, except_chars): a backslash before every character that is
\* neither alphanumeric nor excepted.
RECURSIVE escape(_, _)
escape(string, except_chars) ==
    IF string = <<>> THEN <<>>
    ELSE LET c == Head(string)
         IN  (IF c \in ALPHANUM \cup except_chars THEN <<c>> ELSE <<BSL, c>>)
             \o escape(Tail(string), except_chars)

\* Length of the maximal run of whitespace that starts s (the match of \s+).
RECURSIVE SpaceRun(_)
SpaceRun(s) ==
    IF s = <<>> \/ Head(s) \notin Whitespace THEN 0
    ELSE 1 + SpaceRun(Tail(s))

RECURSIVE DropN(_, _)
DropN(s, n) == IF n = 0 \/ s = <<>> THEN s ELSE DropN(Tail(s), n - 1)

\* _format_bug_replace_match_with_regex: a match of length N becomes ".{N}".
format_bug_replace_match_with_regex(length_of_space) ==
    <<DOT, QuantTok[length_of_space]>>

\* re.sub(r'\s+', _format_bug_replace_match_with_regex, s)
RECURSIVE SubSpaces(_)
SubSpaces(s) ==
    IF s = <<>> THEN <<>>
    ELSE LET n == SpaceRun(s)
         IN  IF n > 0
             THEN format_bug_replace_match_with_regex(n) \o SubSpaces(DropN(s, n))
             ELSE <<Head(s)>> \o SubSpaces(Tail(s))

\* Bug.Part._format_pattern for a non-empty pattern: the regular expression
\* first(?=rest), kept as its two sources.
format_pattern(pattern) ==
    [first |-> escape(<<Head(pattern)>>, {}),
     rest  |-> SubSpaces(escape(Tail(pattern), {SP}))]

\* ------------------------------------------------------- regular expression
\* What the re module makes of a source: a sequence of items, each a
\* literal character or "any character", repeated n times.  A backslash
\* makes the next token a literal; an unescaped dot is "any character"; a
\* quantifier applies to the item before it.
RECURSIVE ParseRegex(_)
ParseRegex(src) ==
    IF src = <<>> THEN <<>>
    ELSE LET esc   == Head(src) = BSL /\ Len(src) >= 2
             atom  == IF esc THEN src[2] ELSE Head(src)
             after == IF esc THEN Tail(Tail(src)) ELSE Tail(src)
             quant == after # <<>> /\ IsQuant(Head(after))
             item  == [any |-> (~esc /\ atom = DOT),
                       ch  |-> atom,
                       n   |-> IF quant THEN QuantOf(Head(after)) ELSE 1]
         IN  <<item>> \o ParseRegex(IF quant THEN Tail(after) ELSE after)

\* Whether item matches text at columns col .. col + item.n - 1.
ItemMatches(item, text, col) ==
    /\ col >= 0
    /\ col + item.n <= Len(text)
    /\ \A k \in 1..item.n : item.any \/ text[col + k] = item.ch

\* The column after the match of items at col, or -1 when there is none.
RECURSIVE MatchItems(_, _, _)
MatchItems(items, text, col) ==
    IF items = <<>> THEN col
    ELSE IF ItemMatches(Head(items), text, col)
         THEN MatchItems(Tail(items), text, col + Head(items).n)
         ELSE -1

\* Whether the expression first(?=rest) matches text at column col: first
\* is consumed, rest is looked at and not consumed.
RegexMatchAt(pattern, text, col) ==
    LET end == MatchItems(ParseRegex(pattern.first), text, col)
    IN  /\ end >= 0
        /\ MatchItems(ParseRegex(pattern.rest), text, end) >= 0

\* The end of the match at col: only first is consumed.
RegexMatchEnd(pattern, text, col) ==
    MatchItems(ParseRegex(pattern.first), text, col)

\* The first column at or after pos where the expression matches, or -1.
RegexSearch(pattern, text, pos) ==
    LET hits == {c \in pos..(Len(text) - 1) : RegexMatchAt(pattern, text, c)}
    IN  IF hits = {} THEN -1
        ELSE CHOOSE c \in hits : \A d \in hits : c <= d

\* The resumption if the looked-ahead rest were consumed by the match.
FindIterResumeAfterRest(pattern, text, col) ==
    MatchItems(ParseRegex(pattern.rest), text, RegexMatchEnd(pattern, text, col))

\* Where re.finditer resumes after a match at col: at the end of the match.
FindIterResume(pattern, text, col) == RegexMatchEnd(pattern, text, col)

\* ------------------------------------------------------------- File.reader
\* str.rstrip(): the text without its trailing whitespace.
RECURSIVE RStrip(_)
RStrip(text) ==
    IF text = <<>> THEN <<>>
    ELSE IF text[Len(text)] \in Whitespace
         THEN RStrip(SubSeq(text, 1, Len(text) - 1))
         ELSE text

\* The Line if enumerate did not number it.
LineUnnumbered(line_id, pattern) == [id |-> 0, pattern |-> pattern]

\* File.Line(line_id, pattern)
Line(line_id, pattern) == [id |-> line_id, pattern |-> pattern]

\* File.reader over the physical lines file[from..]: every line is
\* right-stripped, a line that is then empty is dropped, and the others keep
\* their 0-based position in the file as id.
RECURSIVE reader(_, _)
reader(file, from) ==
    IF from > Len(file) THEN <<>>
    ELSE LET pattern == RStrip(file[from])
         IN  (IF pattern # <<>> THEN <<Line(from - 1, pattern)>> ELSE <<>>)
             \o reader(file, from + 1)

\* Bug.Part(line): the id of the line and its pattern turned into a regular
\* expression.  raw is the text the expression was made from; the source
\* does not keep it, the properties below refer to it.
Part(line) ==
    [id |-> line.id, pattern |-> format_pattern(line.pattern), raw |-> line.pattern]

\* Bug._read_bug: one Part per line the reader yields.
read_bug(file) ==
    LET lines == reader(file, 1)
    IN  [i \in 1..Len(lines) |-> Part(lines[i])]

\* -------------------------------------------------------- bug_part_matches
\* defaultdict(lambda: defaultdict(list)) as a function from the keys
\* <<line number, bug part id>> that exist to their lists of positions.
\* (Reading the outer dictionary only creates an empty inner dictionary,
\* which no operation tells from a missing one.)
EmptyMatches == [key \in {} |-> <<>>]

\* matches[line][id] on a defaultdict: a missing key comes to exist, empty.
Touch(matches, key) ==
    IF key \in DOMAIN matches THEN matches
    ELSE [k \in DOMAIN matches \cup {key} |-> IF k = key THEN <<>> ELSE matches[k]]

Positions(matches, key) == IF key \in DOMAIN matches THEN matches[key] ELSE <<>>

InSeq(x, seq) == \E i \in 1..Len(seq) : seq[i] = x

\* The removal if it took every occurrence of x out of the list.
ListRemoveAll(seq, x) == SelectSeq(seq, LAMBDA y : y # x)

\* list.remove(x) where x is in the list: without its first occurrence.
ListRemove(seq, x) ==
    LET i == CHOOSE j \in 1..Len(seq) : seq[j] = x /\ \A h \in 1..(j - 1) : seq[h] # x
    IN  SubSeq(seq, 1, i - 1) \o SubSeq(seq, i + 1, Len(seq))

\* BugFinder.increment_bug_count
increment_bug_count(bug_count) == bug_count + 1

\* BugFinder.bug_part_match_exists
bug_part_match_exists(matches, bug_part, landscape_line) ==
    <<landscape_line.id, bug_part.id>> \in DOMAIN matches

\* BugFinder.register_bug_part_match
register_bug_part_match(matches, bug_part, landscape_line, position) ==
    LET key == <<landscape_line.id, bug_part.id>>
    IN  [Touch(matches, key) EXCEPT ![key] = Append(@, position)]

\* BugFinder.deregister_bug_match, from the k-th part from the bottom
\* (k = 0 is the last part) upwards.  list.remove raises ValueError when the
\* position is not in the list: fault, with the removals done so far kept.
RECURSIVE deregister_bug_match(_, _, _, _, _)
deregister_bug_match(matches, shape, landscape_line, position, k) ==
    IF k >= Len(shape) THEN [matches |-> matches, fault |-> FALSE]
    ELSE LET key     == <<landscape_line.id - k, shape[Len(shape) - k].id>>
             touched == Touch(matches, key)
         IN  IF InSeq(position, touched[key])
             THEN deregister_bug_match(
                      [touched EXCEPT ![key] = ListRemove(@, position)],
                      shape, landscape_line, position, k + 1)
             ELSE [matches |-> touched, fault |-> TRUE]

\* BugFinder.should_skip_all_bug_parts_in_line
should_skip_all_bug_parts_in_line(matches, bug_part, landscape_line) ==
    /\ landscape_line.id - bug_part.id <= 0
    /\ ~bug_part_match_exists(matches, bug_part, landscape_line)

\* BugFinder.should_skip_bug_part_in_line
should_skip_bug_part_in_line(matches, bug_part, landscape_line) ==
    /\ landscape_line.id - 1 >= 0
    /\ bug_part.id - 1 >= 0
    /\ <<landscape_line.id - 1, bug_part.id - 1>> \notin DOMAIN matches

\* The loop of bug_part_match_belongs_to_a_bug over reversed(shape[:-1]),
\* at the k-th part above the last one.  Every list it reads comes to exist;
\* it stops at the first list without the position.
RECURSIVE BelongsLoop(_, _, _, _, _)
BelongsLoop(matches, shape, landscape_line, position, k) ==
    IF k >= Len(shape) THEN [matches |-> matches, belongs |-> TRUE]
    ELSE LET key     == <<landscape_line.id - k, shape[Len(shape) - k].id>>
             touched == Touch(matches, key)
         IN  IF InSeq(position, touched[key])
             THEN BelongsLoop(touched, shape, landscape_line, position, k + 1)
             ELSE [matches |-> touched, belongs |-> FALSE]

\* The check if it looked back before asking for the last part of the shape.
belongs_lookback_first(matches, shape, bug_part, landscape_line, position) ==
    LET looked == BelongsLoop(matches, shape, landscape_line, position, 1)
    IN  [matches |-> looked.matches,
         belongs |-> looked.belongs /\ bug_part.id = shape[Len(shape)].id]

\* The check if it did not look back at the parts above the last one.
belongs_without_lookback(matches, shape, bug_part, landscape_line, position) ==
    [matches |-> matches, belongs |-> bug_part.id = shape[Len(shape)].id]

\* The check if it did not ask for the last part of the shape.
belongs_for_any_part(matches, shape, bug_part, landscape_line, position) ==
    BelongsLoop(matches, shape, landscape_line, position, 1)

\* BugFinder.bug_part_match_belongs_to_a_bug
bug_part_match_belongs_to_a_bug(matches, shape, bug_part, landscape_line, position) ==
    IF bug_part.id = shape[Len(shape)].id
    THEN BelongsLoop(matches, shape, landscape_line, position, 1)
    ELSE [matches |-> matches, belongs |-> FALSE]

\* One iteration of the loop of find_bug_part_and_bugs_in_landscape_line,
\* for the match at position: register it, and when it completes a bug count
\* the bug and deregister its parts.
MatchStep(matches, bug_count, shape, bug_part, landscape_line, position) ==
    LET registered == register_bug_part_match(matches, bug_part, landscape_line, position)
        check      == bug_part_match_belongs_to_a_bug(registered, shape, bug_part,
                                                      landscape_line, position)
        removed    == deregister_bug_match(check.matches, shape, landscape_line, position, 0)
    IN  IF check.belongs
        THEN [matches |-> removed.matches, bug_count |-> increment_bug_count(bug_count),
              fault |-> removed.fault, bug |-> TRUE]
        ELSE [matches |-> check.matches, bug_count |-> bug_count,
              fault |-> FALSE, bug |-> FALSE]

\* ------------------------------------------------------------------ inputs
\* The physical lines a bug file is made of: a line of blanks (dropped by the
\* reader), and rows with and without a run of blanks.
BugLineChoices == {<<SP>>, <<"a">>, <<"a", "a">>, <<"a", SP, "a">>}

\* The physical lines a landscape file is made of.
LandscapeLineChoices == {<<SP>>, <<"b", SP>>, <<"a", "a", "a">>, <<"a", "b", "a">>}

RECURSIVE SeqsOf(_, _)
SeqsOf(S, n) ==
    IF n = 0 THEN {<<>>}
    ELSE {<<>>} \cup {<<x>> \o s : x \in S, s \in SeqsOf(S, n - 1)}

BugFiles == SeqsOf(BugLineChoices, MaxBugLines)

\* ------------------------------------------------------------------- state
VARIABLES
    bug_file,        \* the physical lines of the bug file
    shape,           \* Bug.shape: the Parts read from bug_file
    bug_part_matches,\* BugFinder._bug_part_matches
    bug_count,       \* BugFinder._bug_count
    pc,              \* where the engine is
    line_id,         \* the reader's position in the landscape file (enumerate)
    landscape_line,  \* the Line the loop of find_bugs_in_landscape is at
    part_ix,         \* index in shape of the bug_part the inner loop is at
    pos,             \* where re.finditer searches next
    pass,            \* number of the pass of this engine (1 = fresh engine)
    lines_read,      \* physical lines read over all passes
    emitted,         \* history: the Lines the reader yielded in this pass
    found,           \* history: <<line, position>> of the bugs counted in this pass
    reg_log          \* history: positions registered for the current bug_part and line

vars == <<bug_file, shape, bug_part_matches, bug_count, pc, line_id, landscape_line,
          part_ix, pos, pass, lines_read, emitted, found, reg_log>>

NoLine == Line(-1, <<>>)

\* Bug(filename) then BugFinder(bug, landscape): BugFinder.__init__
Init ==
    /\ bug_file \in BugFiles
    /\ shape = read_bug(bug_file)
    /\ bug_part_matches = EmptyMatches
    /\ bug_count = 0
    /\ pc = "ready"
    /\ line_id = 0
    /\ landscape_line = NoLine
    /\ part_ix = 0
    /\ pos = 0
    /\ pass = 1
    /\ lines_read = 0
    /\ emitted = <<>>
    /\ found = <<>>
    /\ reg_log = <<>>

bug_part == shape[part_ix]

\* The inner loop "for bug_part in self.bug.shape" moves on from index i.
ToPart(i) ==
    IF i <= Len(shape)
    THEN /\ pc' = "part"
         /\ part_ix' = i
    ELSE /\ pc' = "read"
         /\ part_ix' = 0

\* find_bugs_in_landscape is called: the landscape file is opened.
StartPass ==
    /\ pc = "ready"
    /\ pc' = "read"
    /\ line_id' = 0
    /\ UNCHANGED <<bug_file, shape, bug_part_matches, bug_count, landscape_line,
                   part_ix, pos, pass, lines_read, emitted, found, reg_log>>

\* File.reader reads a physical line that is blank once stripped: no Line.
ReadBlank ==
    /\ pc = "read"
    /\ lines_read < MaxLines
    /\ \E raw \in LandscapeLineChoices :
          /\ RStrip(raw) = <<>>
          /\ line_id' = line_id + 1
          /\ lines_read' = lines_read + 1
    /\ UNCHANGED <<bug_file, shape, bug_part_matches, bug_count, pc, landscape_line,
                   part_ix, pos, pass, emitted, found, reg_log>>

\* File.reader yields the next Line, and the loop over the bug parts starts.
ReadLine ==
    /\ pc = "read"
    /\ lines_read < MaxLines
    /\ \E raw \in LandscapeLineChoices :
          /\ RStrip(raw) # <<>>
          /\ landscape_line' = Line(line_id, RStrip(raw))
          /\ emitted' = Append(emitted, Line(line_id, RStrip(raw)))
          /\ line_id' = line_id + 1
          /\ lines_read' = lines_read + 1
    /\ ToPart(1)
    /\ UNCHANGED <<bug_file, shape, bug_part_matches, bug_count, pos, pass, found, reg_log>>

\* The landscape file is exhausted: find_bugs_in_landscape returns.
ReadEnd ==
    /\ pc = "read"
    /\ pc' = "done"
    /\ UNCHANGED <<bug_file, shape, bug_part_matches, bug_count, line_id, landscape_line,
                   part_ix, pos, pass, lines_read, emitted, found, reg_log>>

\* should_skip_bug_part_in_line holds: continue with the next bug part.
SkipPart ==
    /\ pc = "part"
    /\ should_skip_bug_part_in_line(bug_part_matches, bug_part, landscape_line)
    /\ ToPart(part_ix + 1)
    /\ UNCHANGED <<bug_file, shape, bug_part_matches, bug_count, line_id, landscape_line,
                   pos, pass, lines_read, emitted, found, reg_log>>

\* It does not hold: find_bug_part_and_bugs_in_landscape_line starts.
BeginFind ==
    /\ pc = "part"
    /\ ~should_skip_bug_part_in_line(bug_part_matches, bug_part, landscape_line)
    /\ pc' = "find"
    /\ pos' = 0
    /\ reg_log' = <<>>
    /\ UNCHANGED <<bug_file, shape, bug_part_matches, bug_count, line_id, landscape_line,
                   part_ix, pass, lines_read, emitted, found>>

\* re.finditer yields a match that completes no bug: it is registered.
FindPart ==
    /\ pc = "find"
    /\ LET position == RegexSearch(bug_part.pattern, landscape_line.pattern, pos)
           step     == MatchStep(bug_part_matches, bug_count, shape, bug_part,
                                 landscape_line, position)
       IN  /\ position >= 0
           /\ ~step.bug
           /\ bug_part_matches' = step.matches
           /\ pos' = FindIterResume(bug_part.pattern, landscape_line.pattern, position)
           /\ reg_log' = Append(reg_log, position)
    /\ UNCHANGED <<bug_file, shape, bug_count, pc, line_id, landscape_line, part_ix,
                   pass, lines_read, emitted, found>>

\* re.finditer yields a match that completes a bug: it is registered, the
\* bug is counted and its parts are deregistered.
FindBug ==
    /\ pc = "find"
    /\ LET position == RegexSearch(bug_part.pattern, landscape_line.pattern, pos)
           step     == MatchStep(bug_part_matches, bug_count, shape, bug_part,
                                 landscape_line, position)
       IN  /\ position >= 0
           /\ step.bug
           /\ bug_part_matches' = step.matches
           /\ bug_count' = step.bug_count
           /\ pc' = IF step.fault THEN "fault" ELSE "find"
           /\ pos' = FindIterResume(bug_part.pattern, landscape_line.pattern, position)
           /\ reg_log' = Append(reg_log, position)
           /\ found' = Append(found, <<landscape_line.id, position>>)
    /\ UNCHANGED <<bug_file, shape, line_id, landscape_line, part_ix, pass, lines_read,
                   emitted>>

\* re.finditer is exhausted: find_bug_part_and_bugs_in_landscape_line returns.
FindEnd ==
    /\ pc = "find"
    /\ RegexSearch(bug_part.pattern, landscape_line.pattern, pos) < 0
    /\ pc' = "found"
    /\ UNCHANGED <<bug_file, shape, bug_part_matches, bug_count, line_id, landscape_line,
                   part_ix, pos, pass, lines_read, emitted, found, reg_log>>

\* should_skip_all_bug_parts_in_line holds: break out of the loop over parts.
BreakParts ==
    /\ pc = "found"
    /\ should_skip_all_bug_parts_in_line(bug_part_matches, bug_part, landscape_line)
    /\ pc' = "read"
    /\ part_ix' = 0
    /\ UNCHANGED <<bug_file, shape, bug_part_matches, bug_count, line_id, landscape_line,
                   pos, pass, lines_read, emitted, found, reg_log>>

\* It does not hold: the loop goes on with the next bug part.
NextPart ==
    /\ pc = "found"
    /\ ~should_skip_all_bug_parts_in_line(bug_part_matches, bug_part, landscape_line)
    /\ ToPart(part_ix + 1)
    /\ UNCHANGED <<bug_file, shape, bug_part_matches, bug_count, line_id, landscape_line,
                   pos, pass, lines_read, emitted, found, reg_log>>

\* BugFinder.landscape setter after a pass: the count is reset, the matches
\* are kept.
AttachLandscape ==
    /\ pc = "done"
    /\ pass < MaxPasses
    /\ bug_count' = 0
    /\ pc' = "ready"
    /\ pass' = pass + 1
    /\ emitted' = <<>>
    /\ found' = <<>>
    /\ landscape_line' = NoLine
    /\ UNCHANGED <<bug_file, shape, bug_part_matches, line_id, part_ix, pos, lines_read,
                   reg_log>>

Next ==
    \/ StartPass
    \/ ReadBlank
    \/ ReadLine
    \/ ReadEnd
    \/ SkipPart
    \/ BeginFind
    \/ FindPart
    \/ FindBug
    \/ FindEnd
    \/ BreakParts
    \/ NextPart
    \/ AttachLandscape

Spec == Init /\ [][Next]_vars

\* ------------------------------------------------- the pass as a function
\* The loops of find_bugs_in_landscape as operators over an engine state
\* st = [matches, bug_count, fault], for a pass whose pruning rules are
\* applied (prune) or both left out (~prune).  An exception ends the pass.
EngineState(matches, count, fault) ==
    [matches |-> matches, bug_count |-> count, fault |-> fault]

\* The loop of find_bug_part_and_bugs_in_landscape_line, searching from at.
RECURSIVE RunFind(_, _, _, _, _)
RunFind(st, sh, part, line, at) ==
    LET position == RegexSearch(part.pattern, line.pattern, at)
        step     == MatchStep(st.matches, st.bug_count, sh, part, line, position)
    IN  IF st.fault \/ position < 0 THEN st
        ELSE RunFind(EngineState(step.matches, step.bug_count, step.fault), sh, part,
                     line, FindIterResume(part.pattern, line.pattern, position))

\* The loop over the bug parts for one line, from the part of index i.
RECURSIVE RunParts(_, _, _, _, _)
RunParts(st, sh, line, i, prune) ==
    IF st.fault \/ i > Len(sh) THEN st
    ELSE IF prune /\ should_skip_bug_part_in_line(st.matches, sh[i], line)
         THEN RunParts(st, sh, line, i + 1, prune)
         ELSE LET after == RunFind(st, sh, sh[i], line, 0)
              IN  IF prune /\ ~after.fault
                           /\ should_skip_all_bug_parts_in_line(after.matches, sh[i], line)
                  THEN after
                  ELSE RunParts(after, sh, line, i + 1, prune)

\* The loop over the lines the reader yields, from the k-th one.
RECURSIVE RunLines(_, _, _, _, _)
RunLines(st, sh, lines, k, prune) ==
    IF st.fault \/ k > Len(lines) THEN st
    ELSE RunLines(RunParts(st, sh, lines[k], 1, prune), sh, lines, k + 1, prune)

\* A pass of a freshly constructed engine over lines.
FreshPass(sh, lines, prune) ==
    RunLines(EngineState(EmptyMatches, 0, FALSE), sh, lines, 1, prune)

\* ------------------------------------------------------------- vocabulary
\* The Line with number l among lines, if the reader yielded one.
Emitted(lines, l) == \E k \in 1..Len(lines) : lines[k].id = l
TextOf(lines, l) == lines[CHOOSE k \in 1..Len(lines) : lines[k].id = l].pattern

\* The pairs <<L, c>> where every row i of the shape (0-based) matches the
\* line numbered L - (n - 1) + i at column c.
Alignments(sh, lines) ==
    LET n == Len(sh)
    IN  {lc \in UNION {{<<lines[k].id, c>> : c \in 0..(Len(lines[k].pattern) - 1)}
                       : k \in 1..Len(lines)} :
            \A i \in 0..(n - 1) :
                /\ Emitted(lines, lc[1] - (n - 1) + i)
                /\ RegexMatchAt(sh[i + 1].pattern, TextOf(lines, lc[1] - (n - 1) + i), lc[2])}

\* The landscape cells <<line, column>> that a bug with bottom line L at
\* column c occupies.
Cells(sh, L, c) ==
    LET n == Len(sh)
    IN  UNION {{<<L - (n - 1) + i, col>> : col \in c..(c + Len(sh[i + 1].raw) - 1)}
               : i \in 0..(n - 1)}

\* The key of bug_part_matches that the k-th part from the bottom has for a
\* bug with bottom line L.
KeyOf(sh, L, k) == <<L - k, sh[Len(sh) - k].id>>

\* --------------------------------------------------------------------- C1
\* C1: after a pass of a freshly constructed engine the count is the number
\* of pairs (L, c) such that every row i of the shape matches the emitted
\* line numbered L-(n-1)+i at column c.
C1_CountIsAlignments ==
    (pc = "done" /\ pass = 1 /\ Len(shape) >= 1)
        => bug_count = Cardinality(Alignments(shape, emitted))

\* --------------------------------------------------------------------- C2
\* C2: no landscape cell is occupied by two counted occurrences.
C2_NoSharedCell ==
    \A i, j \in 1..Len(found) :
        i < j => Cells(shape, found[i][1], found[i][2])
                     \cap Cells(shape, found[j][1], found[j][2]) = {}

\* --------------------------------------------------------------------- C3
\* C3: once an occurrence with bottom line L and column c is counted, c is
\* absent from (L-k, n-1-k) for every k, and no (L, c) is counted twice.
C3_Retired ==
    (pc # "fault") =>
        /\ \A i \in 1..Len(found) : \A k \in 0..(Len(shape) - 1) :
              ~InSeq(found[i][2], Positions(bug_part_matches, KeyOf(shape, found[i][1], k)))
        /\ \A i, j \in 1..Len(found) : i < j => found[i] # found[j]

\* --------------------------------------------------------------------- C4
\* C4: a pass with both pruning rules left out ends with the same count as
\* the pass with both rules applied.
C4_PruningKeepsCount ==
    (pc = "done" /\ pass = 1)
        => bug_count = FreshPass(shape, emitted, FALSE).bug_count

\* --------------------------------------------------------------------- C5
\* C5: a pass by an engine that had a landscape attached after an earlier
\* pass ends with the count of a pass over the same landscape by a freshly
\* constructed engine.
C5_CountIgnoresHistory ==
    (pc = "done") => bug_count = FreshPass(shape, emitted, TRUE).bug_count

\* --------------------------------------------------------------------- C6
\* C6: a bug file with no row, or with an empty row, makes construction
\* fail: no landscape line is processed and no count is produced.
Malformed(file) ==
    \/ read_bug(file) = <<>>
    \/ \E i \in 1..Len(file) : RStrip(file[i]) = <<>>

C6_InvalidShape ==
    Malformed(bug_file) => (emitted = <<>> /\ pc # "done")

\* --------------------------------------------------------------------- C7
\* C7: a landscape that yields fewer lines than the shape has rows gives the
\* count 0, and the pass does not fault.
C7_ShortLandscape ==
    (Len(emitted) < Len(shape)) => (bug_count = 0 /\ pc # "fault")

\* --------------------------------------------------------------------- C8
\* C8: the count is a natural number that starts at 0, changes by +1 and only
\* in the step that confirms a match of the last row as a complete
\* occurrence, and goes back to 0 only when a landscape is attached.
ConfirmsAt(c) ==
    /\ pc = "find"
    /\ part_ix = Len(shape)
    /\ RegexMatchAt(bug_part.pattern, landscape_line.pattern, c)
    /\ \A k \in 1..(Len(shape) - 1) :
          InSeq(c, Positions(bug_part_matches, KeyOf(shape, landscape_line.id, k)))

C8_CountSteps ==
    /\ bug_count = 0
    /\ [](bug_count \in Nat)
    /\ [][\/ bug_count' = bug_count
          \/ /\ bug_count' = bug_count + 1
             /\ \E c \in 0..(Len(landscape_line.pattern) - 1) :
                    /\ ConfirmsAt(c)
                    /\ found' = Append(found, <<landscape_line.id, c>>)
          \/ /\ bug_count' = 0
             /\ pc = "done"
             /\ pc' = "ready"
             /\ pass' = pass + 1]_vars

\* A second pass, after the reset, in which occurrences were counted.
C8_Witness == pass = 2 /\ bug_count >= 2

\* ------------------------------------------------------ the matcher alone
\* The engine at the first Line of a landscape, for rows and lines over an
\* alphabet with a tab and a dot: the state after StartPass and ReadLine
\* (after a ReadBlank when the Line has id 1).  Rows are made of RowAlphabet,
\* lines of TextAlphabet.
RowAlphabet == {"a", DOT, SP, TAB}
TextAlphabet == {"a", DOT, TAB}

RECURSIVE TextsOf(_, _)
TextsOf(S, n) ==
    IF n = 0 THEN {<<>>}
    ELSE {<<>>} \cup {<<x>> \o t : x \in S, t \in TextsOf(S, n - 1)}

MatchBugFiles ==
    LET rows == {r \in TextsOf(RowAlphabet, MaxRowLen) : RStrip(r) # <<>>}
    IN  {<<r>> : r \in rows} \cup {<<r, <<"a">>>> : r \in rows}

MatchLines == {RStrip(t) : t \in TextsOf(TextAlphabet, MaxTextLen)} \ {<<>>}

MatchInit ==
    /\ bug_file \in MatchBugFiles
    /\ shape = read_bug(bug_file)
    /\ bug_part_matches = EmptyMatches
    /\ bug_count = 0
    /\ pc = "part"
    /\ \E id \in 0..1, text \in MatchLines :
          /\ landscape_line = Line(id, text)
          /\ emitted = <<Line(id, text)>>
          /\ line_id = id + 1
          /\ lines_read = id + 1
    /\ part_ix = 1
    /\ pos = 0
    /\ pass = 1
    /\ found = <<>>
    /\ reg_log = <<>>

\* The loop over the bug parts for that Line.
MatchNext ==
    \/ SkipPart
    \/ BeginFind
    \/ FindPart
    \/ FindBug
    \/ FindEnd
    \/ BreakParts
    \/ NextPart

SpecMatch == MatchInit /\ [][MatchNext]_vars

\* --------------------------------------------------------------------- C9
\* The matching the claim states: col is an index of target, target[col] is
\* the first character of row, and every later offset j of row has a
\* character target[col+j] that equals row[j] unless row[j] is a blank.
ClaimMatches(row, target, col) ==
    /\ col \in 0..(Len(target) - 1)
    /\ target[col + 1] = row[1]
    /\ \A j \in 1..(Len(row) - 1) :
          /\ col + j < Len(target)
          /\ row[j + 1] # SP => target[col + j + 1] = row[j + 1]

\* C9: a compiled row matches a target at column col iff col is an index of
\* the target, the anchor equals target[col], and every later character of
\* the row finds its character in the target, a blank finding any.
C9_RowMatcher ==
    \A i \in 1..Len(shape) : \A col \in (-1)..Len(landscape_line.pattern) :
        RegexMatchAt(shape[i].pattern, landscape_line.pattern, col)
            <=> ClaimMatches(shape[i].raw, landscape_line.pattern, col)

\* -------------------------------------------------------------------- C10
\* The elements of a finite set of integers in ascending order.
RECURSIVE Ascending(_)
Ascending(S) ==
    IF S = {} THEN <<>>
    ELSE LET m == CHOOSE x \in S : \A y \in S : x <= y
         IN  <<m>> \o Ascending(S \ {m})

\* C10: when a row has been evaluated against a line, the columns that were
\* registered are all the columns where the row matches the line's text,
\* each once, in ascending order.
C10_Enumeration ==
    (pc = "found") =>
        reg_log = Ascending({c \in 0..(Len(landscape_line.pattern) - 1) :
                                RegexMatchAt(bug_part.pattern, landscape_line.pattern, c)})

\* An evaluation that registered two columns that differ by 1.
C10_Witness ==
    /\ pc = "found"
    /\ \E i \in 1..(Len(reg_log) - 1) : reg_log[i + 1] = reg_log[i] + 1

\* -------------------------------------------------------------------- C11
\* C11: a character of a row that is neither alphanumeric nor the blank is
\* matched as a literal: the row matches at col only if the target has that
\* same character at its offset.
C11_LiteralCharacters ==
    pc = "found" =>
        \A i \in 1..Len(reg_log) : \A j \in 0..(Len(bug_part.raw) - 1) :
            bug_part.raw[j + 1] \notin (ALPHANUM \cup {SP})
                => /\ reg_log[i] + j < Len(landscape_line.pattern)
                   /\ landscape_line.pattern[reg_log[i] + j + 1] = bug_part.raw[j + 1]

\* -------------------------------------------------------------------- C12
\* The keys of the rows of the shape under the lines emitted in this pass.
PassKeys ==
    {<<emitted[k].id, shape[i].id>> : k \in 1..Len(emitted), i \in 1..Len(shape)}

HasAny(key) ==
    bug_part_match_exists(bug_part_matches, [id |-> key[2]], [id |-> key[1]])

\* C12 as stated: has_any is true iff at least one column is currently
\* registered for the key.
C12_HasAnyIffRegistered ==
    \A key \in PassKeys : HasAny(key) <=> Positions(bug_part_matches, key) # <<>>

C14_RuleTwo ==
    [][(pc = "found" /\ landscape_line.id - (part_ix - 1) <= 0 /\ reg_log = <<>>)
           => pc' = "read"]_vars

\* -------------------------------------------------------------------- C15
\* How many times x is in seq.
Count(seq, x) == Cardinality({i \in 1..Len(seq) : seq[i] = x})

\* The columns that can be registered.
Columns == 0..(MaxTextLen - 1)

\* A step that counts a bug: find_bug_part_and_bugs_in_landscape_line
\* registers the column under the last part, counts, and retires.
CountsBug == Len(found') = Len(found) + 1

\* C15: counting the bug at bottom line L and column c takes exactly one c
\* out of the list of each part above the last one, at its line L - k, and
\* the one c just registered out of the list of the last part; every other
\* column of those lists and every list of every other key is as before.
C15_RetirementFrame ==
    [][CountsBug =>
          LET L    == landscape_line.id
              c    == found'[Len(found')][2]
              n    == Len(shape)
              keys == {KeyOf(shape, L, k) : k \in 0..(n - 1)}
          IN  /\ pc' # "fault"
              /\ \A k \in 1..(n - 1) : \A x \in Columns :
                     Count(Positions(bug_part_matches', KeyOf(shape, L, k)), x)
                         = Count(Positions(bug_part_matches, KeyOf(shape, L, k)), x)
                               - (IF x = c THEN 1 ELSE 0)
              /\ Positions(bug_part_matches', KeyOf(shape, L, 0))
                     = Positions(bug_part_matches, KeyOf(shape, L, 0))
              /\ \A key \in (DOMAIN bug_part_matches' \cup DOMAIN bug_part_matches) \ keys :
                     Positions(bug_part_matches', key) = Positions(bug_part_matches, key)
    ]_vars

\* A bug of two parts was counted, and the list that lost its column under
\* the first part still has columns.
C15_Witness ==
    /\ found # <<>>
    /\ Len(shape) >= 2
    /\ pc = "find"
    /\ found[Len(found)][1] = landscape_line.id
    /\ Positions(bug_part_matches, KeyOf(shape, landscape_line.id, 1)) # <<>>

\* -------------------------------------------------------------------- C16
\* C16: in the pass of a freshly constructed engine deregister_bug_match
\* never removes a column that is not in the list: the ValueError of
\* list.remove is not raised.
C16_NoRetirementFault == pass = 1 => pc # "fault"

\* A fresh engine counted a bug of two parts and retired its columns.
C16_Witness ==
    /\ pass = 1
    /\ found # <<>>
    /\ Len(shape) >= 2
    /\ pc = "find"
    /\ \A k \in 0..(Len(shape) - 1) :
           KeyOf(shape, found[Len(found)][1], k) \in DOMAIN bug_part_matches

\* -------------------------------------------------------------------- C17
\* C17: every bug counted in a pass with bottom line L has each of the line
\* numbers L - (n - 1) .. L emitted by the reader in that pass: no counted
\* bug spans a line number that the reader skipped.
C17_NoBugAcrossGap ==
    \A i \in 1..Len(found) : \A k \in 0..(Len(shape) - 1) :
        Emitted(emitted, found[i][1] - k)

\* -------------------------------------------------------------------- C18
\* The lines that a bug with bottom line L reaches: L - (n - 1) .. L.
Window == (landscape_line.id - (Len(shape) - 1))..landscape_line.id

\* should_skip_bug_part_in_line reads the table under the line before the
\* current one as soon as its first two conditions hold.
RuleOneReads ==
    /\ pc = "part"
    /\ landscape_line.id - 1 >= 0
    /\ bug_part.id - 1 >= 0

\* C18: while line L is processed the table is read, written and emptied
\* only under lines L - (n - 1) .. L: the read of rule 1, and every key that
\* a step creates or changes.
C18_BoundedLookback ==
    [][/\ RuleOneReads => (landscape_line.id - 1) \in Window
       /\ \A key \in DOMAIN bug_part_matches' :
              (\/ key \notin DOMAIN bug_part_matches
               \/ bug_part_matches'[key] # bug_part_matches[key])
                  => key[1] \in Window
    ]_vars

\* -------------------------------------------------------------------- C19
\* The loop over re.finditer takes its next step, which is FindPart, FindBug
\* or FindEnd: one of the three can be taken whenever pc = "find", and each
\* moves pos forward or leaves the loop.
FindLoop ==
    /\ pc = "find"
    /\ pc' \in {"find", "found", "fault"}
    /\ pos' \in 0..MaxTextLen

\* The steps of find_bugs_in_landscape outside the loop over re.finditer.
PassStep ==
    \/ StartPass
    \/ ReadBlank \/ ReadLine \/ ReadEnd
    \/ SkipPart \/ BeginFind
    \/ BreakParts \/ NextPart

\* The steps of one call of find_bugs_in_landscape.
PassNext ==
    \/ PassStep
    \/ FindPart
    \/ FindBug
    \/ FindEnd

\* The program: a BugFinder is constructed and find_bugs_in_landscape is
\* called once.  It is sequential code: the statement it is at runs.
SpecLive ==
    /\ Init
    /\ [][PassNext]_vars
    /\ WF_vars(PassStep)
    /\ WF_<<pc, pos>>(FindLoop)

\* C19: a pass that starts ends, with the count in bug_count; the lines it
\* processes are the emitted lines, one at a time in strictly increasing
\* line-number order, and no step faults.
C19_PassCompletes ==
    /\ [](pc # "fault")
    /\ [](\A i \in 1..(Len(emitted) - 1) : emitted[i].id < emitted[i + 1].id)
    /\ [](pc \in {"part", "find", "found"} => landscape_line = emitted[Len(emitted)])
    /\ [][landscape_line' # landscape_line
              => \/ landscape_line' = NoLine
                 \/ /\ pc = "read"
                    /\ \A i \in 1..Len(emitted) : emitted[i].id < landscape_line'.id]_vars
    /\ (pc = "ready") ~> (pc = "done" /\ bug_count \in Nat)

\* A pass over two emitted lines ended with a bug counted.
C19_Witness ==
    /\ pc = "done"
    /\ Len(emitted) >= 2
    /\ bug_count >= 1

\* -------------------------------------------------------------------- C20
\* The key that rule 1 looks for: the part before, under the line before.
RuleOneKey == <<landscape_line.id - 1, bug_part.id - 1>>

\* The keys of the table that hold an empty list.
EmptyKeys == {key \in DOMAIN bug_part_matches : bug_part_matches[key] = <<>>}

\* C20: in the pass of a freshly constructed engine, whenever
\* should_skip_bug_part_in_line looks for the key of the part before under
\* the line before, the key is there iff its list has a column.
C20_RuleOneKeyIffColumns ==
    (pass = 1 /\ RuleOneReads)
        => (RuleOneKey \in DOMAIN bug_part_matches
                <=> Positions(bug_part_matches, RuleOneKey) # <<>>)

\* Rule 1 finds its key while the table of a fresh engine holds empty lists,
\* left by retirement and by the lookback.
C20_Witness ==
    /\ pass = 1
    /\ RuleOneReads
    /\ RuleOneKey \in DOMAIN bug_part_matches
    /\ found # <<>>
    /\ \E key \in EmptyKeys : key[1] < landscape_line.id - 1
    /\ \E key \in EmptyKeys : key[1] = landscape_line.id - 1

====
